---- MODULE Spec2Model ----
(***************************************************************************)
(* A model of system-monitor (src/src/lib.rs): four refresher threads that *)
(* update one sysinfo::System behind a parking_lot RwLock, a dispatcher    *)
(* thread that serves requests from a flume::bounded(1) channel, and the   *)
(* async get_cpu / get_memory / get_network / get_disk client operations.  *)
(***************************************************************************)
EXTENDS Integers, Sequences, FiniteSets

\* ------------------------------------------------------------------ bounds

\* Refreshes started over a run, all classes together (the loops never end).
MaxRefresh == 2

\* get_* calls issued over a run.
MaxCalls == 2

\* The time the simulated clock runs for, in units of 100 ms: one second.
OneSecond == 10

\* ------------------------------------------------------- program constants

\* flume::bounded(1): the capacity of the inbound request queue.
QueueCap == 1

\* ------------------------------------------------------------ metric classes

\* The four variants of Request, one per metric class.
Classes == {"cpu", "memory", "network", "disk"}

\* The classes whose refresh is two sampler calls under one write guard:
\* refresh_disks_list + refresh_disks, refresh_networks_list + refresh_networks.
TwoStep == {"disk", "network"}

CallIds == 1..MaxCalls

\* No request held by the dispatcher.
NoReq == 0

\* ------------------------------------------------------------------ state

VARIABLES
    store,      \* sysinfo::System: per class, the entity list and its readings
    lock,       \* the RwLock's state: a writer flag and a reader count
    rpc,        \* per refresher thread, its position in the loop
    cycle,      \* per class, the refreshes completed so far (history)
    wake,       \* per refresher, the time its current thread::sleep ends
    sampler,    \* per class, whether the OS sampler works for it
    now,        \* the clock, in units of 100 ms
    config,     \* per class, the interval the caller asked a builder for
    handle,     \* the SystemMonitor handle, the only flume::Sender
    receiver,   \* req_rx, the only flume::Receiver
    queue,      \* the requests in the bounded channel's queue
    sending,    \* the senders suspended in send_async, in arrival order
    dpc,        \* the dispatcher thread's position
    dreq,       \* the request the dispatcher dequeued and has not yet dropped
    calls,      \* per get_* call: class, position, oneshot state and value
    enq,        \* history: the calls in the order they entered the queue
    srv         \* history: the calls in the order the dispatcher answered them

vars == <<store, lock, rpc, cycle, wake, sampler, now, config, handle,
          receiver, queue, sending, dpc, dreq, calls, enq, srv>>

envVars == <<sampler, now, config>>
refresherVars == <<store, rpc, cycle, wake, sampler, now, config>>
channelVars == <<handle, receiver, queue, sending, calls, enq>>
dispatcherVars == <<dpc, dreq, srv>>

\* ------------------------------------------------------------------ values

\* What the OS sampler reports for the n-th refresh cycle of a class: every
\* cycle reports a reading no earlier cycle reported.
Reading(n) == n

\* Mutant: sysinfo::System::new_all(), which samples everything at once.
PreloadedSystem == [c \in Classes |-> [list |-> 1, data |-> 1]]

\* sysinfo::System::new(): nothing loaded, every list empty, every counter 0.
NewSystem == [c \in Classes |-> [list |-> 0, data |-> 0]]

\* Default::default() of a reply type: Vec::new() or an all-zero Memory.
DefaultValue(c) == [class |-> c, list |-> 0, data |-> 0]

\* Mutant: match arms that all copy the cpus.
ExtractCpu(sys, c) ==
    [class |-> c, list |-> sys["cpu"].list, data |-> sys["cpu"].data]

\* The dispatcher's copy of class c out of the System it holds a read guard on.
Extract(sys, c) == [class |-> c, list |-> sys[c].list, data |-> sys[c].data]

NoValue == [class |-> "none", list |-> 0, data |-> 0]

\* What a sampler call that fails leaves in the System: the refresh_* calls
\* return nothing, so the loop sees no failure and the class keeps the
\* readings it had.
FailedRefresh(sys, c) == sys

\* ------------------------------------------------------------- the intervals

\* The durations the four loops pass to thread::sleep, in units of 100 ms:
\* sysinfo::System::MINIMUM_CPU_UPDATE_INTERVAL (200 ms), 10 s, 30 s, 500 ms.
CpuInterval == 2
MemoryInterval == 100
DiskInterval == 300
NetworkInterval == 5

Interval(c) ==
    CASE c = "cpu" -> CpuInterval
      [] c = "memory" -> MemoryInterval
      [] c = "disk" -> DiskInterval
      [] c = "network" -> NetworkInterval

\* The intervals examples/monitor.rs asks a SystemMonitorBuilder for: 1 s for
\* cpu, 10 s for memory, 1 s for network, 30 s for disk.
AskedCpu == 10
AskedMemory == 100
AskedNetwork == 10
AskedDisk == 300

Asked(c) ==
    CASE c = "cpu" -> AskedCpu
      [] c = "memory" -> AskedMemory
      [] c = "disk" -> AskedDisk
      [] c = "network" -> AskedNetwork

\* SystemMonitor::new() takes no argument: nothing is asked for.
NoConfig == [c \in Classes |-> <<>>]

\* What a caller may ask for: per class nothing, or the example's interval.
Configs == {[c \in Classes |-> IF c \in S THEN <<Asked(c)>> ELSE <<>>] :
               S \in SUBSET Classes}

\* Mutant: loops that sleep first and refresh afterwards.
FirstWakeAfterInterval(c) == Interval(c)

\* The time a refresher thread first asks for the lock: the loop body begins
\* with the refresh, so as soon as the thread is spawned.
FirstWake(c) == 0

\* ---------------------------------------------------------------- the lock

\* Mutant: write() that does not wait for the reader to leave.
CanWriteIgnoringReaders(l) == ~l.writer

\* RwLock::write() returns when no reader and no writer holds the lock.
CanWrite(l) == ~l.writer /\ l.readers = 0

\* RwLock::read() returns when no writer holds the lock.
CanRead(l) == ~l.writer

\* ------------------------------------------------------------------- Init

NewCall == [class |-> "none", pc |-> "new", tx |-> "none", val |-> NoValue]

\* The state SystemMonitor::new() returns in.
Constructed ==
    /\ store = NewSystem
    /\ lock = [writer |-> FALSE, readers |-> 0]
    /\ rpc = [c \in Classes |-> "start"]
    /\ cycle = [c \in Classes |-> 0]
    /\ wake = [c \in Classes |-> FirstWake(c)]
    /\ sampler = [c \in Classes |-> "ok"]
    /\ now = 0
    /\ handle = "alive"
    /\ receiver = "alive"
    /\ queue = <<>>
    /\ sending = <<>>
    /\ dpc = "recv"
    /\ dreq = NoReq
    /\ calls = [i \in CallIds |-> NewCall]
    /\ enq = <<>>
    /\ srv = <<>>

Init ==
    /\ Constructed
    /\ config = NoConfig

\* -------------------------------------------------------------- refreshers

RECURSIVE SumOver(_, _)
SumOver(f, S) ==
    IF S = {} THEN 0
    ELSE LET x == CHOOSE y \in S : TRUE IN f[x] + SumOver(f, S \ {x})

\* Refreshes started so far: the completed ones and the one in progress.
Started == SumOver(cycle, Classes) + (IF lock.writer THEN 1 ELSE 0)

\* The first position inside the write guard's scope.
FirstStep(c) == IF c \in TwoStep THEN "refresh_list" ELSE "refresh"

\* A refresher outside its inner block: just spawned, or in thread::sleep.
Outside(c) == rpc[c] \in {"start", "sleep"}

\* (thread::sleep(..) returns, the loop starts over, and)
\* let mut system = X_system.write();
Acquire(c) ==
    /\ Outside(c)
    /\ CanWrite(lock)
    /\ lock' = [lock EXCEPT !.writer = TRUE]
    /\ rpc' = [rpc EXCEPT ![c] = FirstStep(c)]
    /\ UNCHANGED <<store, cycle, wake>>
    /\ UNCHANGED envVars
    /\ UNCHANGED channelVars
    /\ UNCHANGED dispatcherVars

\* Acquire at any time after the sleep, within the bound on refreshes.
AcquireWrite(c) ==
    /\ Started < MaxRefresh
    /\ Acquire(c)

\* Acquire on a simulated clock: exactly when the sleep ends.
TimedAcquire(c) ==
    /\ wake[c] <= now
    /\ Acquire(c)

\* Mutant: a write guard that outlives the inner block.
StillHeld(l) == l

\* The write guard's state when the inner block ends.
Released(l) == [l EXCEPT !.writer = FALSE]

\* Mutant: a guard taken per call, released after refresh_X_list().
ReleasedBetween(l) == [l EXCEPT !.writer = FALSE]

\* The guard's state between refresh_X_list() and refresh_X(): still held.
HeldBetween(l) == l

\* Mutant: a thread::sleep placed inside the guard's block.
AfterListSleep(c) == "sleep"

\* The position after refresh_X_list(): the second call, in the same scope.
AfterList(c) == "refresh"

\* system.refresh_disks_list(); / system.refresh_networks_list();
RefreshList(c) ==
    /\ rpc[c] = "refresh_list"
    /\ store' = IF sampler[c] = "ok"
                THEN [store EXCEPT ![c].list = Reading(cycle[c] + 1)]
                ELSE FailedRefresh(store, c)
    /\ lock' = HeldBetween(lock)
    /\ rpc' = [rpc EXCEPT ![c] = AfterList(c)]
    /\ UNCHANGED <<cycle, wake>>
    /\ UNCHANGED envVars
    /\ UNCHANGED channelVars
    /\ UNCHANGED dispatcherVars

\* Mutant: a refresh applied to a private copy of the System.
RefreshedNothing(sys, c, n) == sys

\* Mutant: a refresh that keeps the entries it already has.
RefreshedFirstOnly(sys, c, n) ==
    IF n = 1 THEN [sys EXCEPT ![c] = [list |-> 1, data |-> 1]] ELSE sys

\* Mutant: a refresh that samples everything (refresh_all()).
RefreshedAll(sys, c, n) ==
    [d \in Classes |-> [list |-> Reading(n), data |-> Reading(n)]]

\* The System after the (last) refresh call of class c's cycle.
Refreshed(sys, c, n) ==
    [sys EXCEPT ![c] = [list |-> Reading(n), data |-> Reading(n)]]

\* Mutant: a loop that leaves on a failed refresh (`?`, unwrap or break).
StopOnFailure(c, ok) == IF ok THEN "sleep" ELSE "dead"

\* Where the thread goes when the inner block ends: the refresh calls return
\* nothing to look at, so to thread::sleep(..) whatever the sampler did.
AfterRefresh(c, ok) == "sleep"

\* system.refresh_cpu(); / refresh_memory(); / refresh_disks(); /
\* refresh_networks(); then the inner block ends, which drops the guard, and
\* the thread enters thread::sleep(..).
Refresh(c) ==
    /\ rpc[c] = "refresh"
    /\ IF sampler[c] = "ok"
       THEN /\ store' = Refreshed(store, c, cycle[c] + 1)
            /\ cycle' = [cycle EXCEPT ![c] = @ + 1]
            /\ UNCHANGED sampler
       ELSE /\ store' = FailedRefresh(store, c)
            /\ sampler' = [sampler EXCEPT ![c] = "failed"]
            /\ UNCHANGED cycle
    /\ lock' = Released(lock)
    /\ rpc' = [rpc EXCEPT ![c] = AfterRefresh(c, sampler[c] = "ok")]
    /\ wake' = [wake EXCEPT ![c] = now + Interval(c)]
    /\ UNCHANGED <<now, config>>
    /\ UNCHANGED channelVars
    /\ UNCHANGED dispatcherVars

Refresher(c) ==
    \/ AcquireWrite(c)
    \/ RefreshList(c)
    \/ Refresh(c)

\* ---------------------------------------------------------- client handle

Min(a, b) == IF a < b THEN a ELSE b

\* The sequence s without its element x.
Remove(s, x) == SelectSeq(s, LAMBDA y : y # x)

InSeq(s, x) == \E k \in 1..Len(s) : s[k] = x

\* A call of get_X is in flight: its future exists and borrows the handle.
InFlight(i) == calls[i].pc \in {"send", "await"}

\* Calls are numbered in the order they are made.
NextCall(i) ==
    /\ calls[i].pc = "new"
    /\ IF i = 1 THEN TRUE ELSE calls[i - 1].pc # "new"

\* Mutant: an unbounded channel.
AlwaysRoom == TRUE

\* send_async finds room in the queue: the request is enqueued at once.
HasRoom == Len(queue) < QueueCap

\* let (tx, rx) = oneshot::channel();
\* self.req_tx.send_async(Request::X { tx }).await.ok();   (first poll)
\* With no receiver left the send fails and .ok() drops the returned request,
\* and tx with it; with room the request is queued; otherwise the sender is
\* suspended behind the senders already waiting.
Start(i, c) ==
    /\ NextCall(i)
    /\ handle = "alive"
    /\ IF receiver # "alive"
       THEN /\ calls' = [calls EXCEPT ![i] =
                   [class |-> c, pc |-> "await", tx |-> "dropped", val |-> NoValue]]
            /\ UNCHANGED <<queue, sending, enq>>
       ELSE IF HasRoom
       THEN /\ calls' = [calls EXCEPT ![i] =
                   [class |-> c, pc |-> "await", tx |-> "live", val |-> NoValue]]
            /\ queue' = Append(queue, i)
            /\ enq' = Append(enq, i)
            /\ UNCHANGED sending
       ELSE /\ calls' = [calls EXCEPT ![i] =
                   [class |-> c, pc |-> "send", tx |-> "live", val |-> NoValue]]
            /\ sending' = Append(sending, i)
            /\ UNCHANGED <<queue, enq>>
    /\ UNCHANGED <<handle, receiver, lock>>
    /\ UNCHANGED refresherVars
    /\ UNCHANGED dispatcherVars

\* Mutant: rx.await.unwrap(), which yields no value when tx was dropped.
UnwrapOnly(call) == call.val

\* rx.await.unwrap_or_default(): the value sent, or the type's default when
\* tx was dropped without one (Err(Canceled)).
UnwrapOrDefault(call) ==
    IF call.tx = "sent" THEN call.val ELSE DefaultValue(call.class)

\* rx.await is ready once a value was sent or tx was dropped.
Ready(call) == call.tx \in {"sent", "dropped"}

\* rx.await.unwrap_or_default() returns.
Return(i) ==
    /\ calls[i].pc = "await"
    /\ Ready(calls[i])
    /\ calls' = [calls EXCEPT ![i].pc = "done", ![i].val = UnwrapOrDefault(calls[i])]
    /\ UNCHANGED <<handle, receiver, queue, sending, enq, lock>>
    /\ UNCHANGED refresherVars
    /\ UNCHANGED dispatcherVars

\* The caller's task is cancelled: the get_X future is dropped at one of its
\* two suspension points.  A sender still suspended in send_async takes its
\* request (and tx) with it; past that point only rx is dropped.
Cancel(i) ==
    /\ InFlight(i)
    /\ calls[i].tx = "live"
    /\ IF calls[i].pc = "send"
       THEN /\ sending' = Remove(sending, i)
            /\ calls' = [calls EXCEPT ![i].pc = "cancelled", ![i].tx = "dropped"]
       ELSE /\ calls' = [calls EXCEPT ![i].pc = "cancelled"]
            /\ UNCHANGED sending
    /\ UNCHANGED <<handle, receiver, queue, enq, lock>>
    /\ UNCHANGED refresherVars
    /\ UNCHANGED dispatcherVars

\* The SystemMonitor is dropped, and its req_tx, the only sender, with it.
\* Every get_X future borrows the handle, so none is in flight.
DropHandle ==
    /\ handle = "alive"
    /\ \A i \in CallIds : ~InFlight(i)
    /\ handle' = "dropped"
    /\ UNCHANGED <<receiver, queue, sending, calls, enq, lock>>
    /\ UNCHANGED refresherVars
    /\ UNCHANGED dispatcherVars

\* -------------------------------------------------------------- dispatcher

\* Mutant: a receive that yields the newest request.
NewestRequest(q, s) == (q \o s)[Len(q \o s)]

\* The request req_rx.recv() yields: the oldest one.
NextRequest(q, s) == Head(q \o s)

\* req_rx.recv() with a request available: it is taken, and the senders
\* suspended in send_async move up into the freed queue space in arrival
\* order, each send_async completing with Ok.
Recv ==
    /\ dpc = "recv"
    /\ queue # <<>>
    /\ LET req == NextRequest(queue, sending)
           rest == Remove(queue \o sending, req)
           q2 == SubSeq(rest, 1, Min(QueueCap, Len(rest)))
           s2 == SubSeq(rest, Len(q2) + 1, Len(rest))
           moved == SelectSeq(<<req>> \o q2, LAMBDA x : ~InSeq(queue, x))
       IN /\ dreq' = req
          /\ queue' = q2
          /\ sending' = s2
          /\ enq' = enq \o moved
          /\ calls' = [i \in CallIds |->
                 IF InSeq(moved, i) /\ calls[i].pc = "send"
                 THEN [calls[i] EXCEPT !.pc = "await"]
                 ELSE calls[i]]
    /\ dpc' = "read"
    /\ UNCHANGED <<handle, receiver, srv, lock>>
    /\ UNCHANGED refresherVars

\* Mutant: a recv() that fails as soon as the last sender is gone.
DisconnectedAtDrop(q, h) == h = "dropped"

\* flume's recv() returns Err(Disconnected) only once every sender is dropped
\* and the queue has been drained.
Disconnected(q, h) == q = <<>> /\ h = "dropped"

\* req_rx.recv() returns Err: the queue is empty and no sender is left.  The
\* while-let loop ends and the closure returns, dropping req_rx.
Exit ==
    /\ dpc = "recv"
    /\ Disconnected(queue, handle)
    /\ dpc' = "exit"
    /\ receiver' = "dropped"
    /\ UNCHANGED <<handle, queue, sending, calls, enq, dreq, srv, lock>>
    /\ UNCHANGED refresherVars

\* let system = async_system.read();
AcquireRead ==
    /\ dpc = "read"
    /\ CanRead(lock)
    /\ lock' = [lock EXCEPT !.readers = @ + 1]
    /\ dpc' = "match"
    /\ UNCHANGED <<dreq, srv>>
    /\ UNCHANGED channelVars
    /\ UNCHANGED refresherVars

\* oneshot::Sender::send(v): the value is stored for the receiver, or handed
\* back as Err(v) when the receiver is gone; .ok() drops it.
OneshotSend(call, v) ==
    IF call.pc = "cancelled"
    THEN [call EXCEPT !.tx = "refused"]
    ELSE [call EXCEPT !.tx = "sent", !.val = v]

\* Mutant: tx.send(..).unwrap(), which panics on a refused send.
AfterSendUnwrap(call) == IF call.pc = "cancelled" THEN "aborted" ELSE "release"

\* .ok() discards the Result of the send: whether the value was taken or
\* refused, the match arm ends and the loop body goes on to its end.
AfterSend(call) == "release"

\* Mutant: a copy made in an inner block, the guard dropped before the send.
GuardDroppedAtSend(l) == [l EXCEPT !.readers = 0]

\* The read guard `system` when tx.send(..) runs: it is declared at the top of
\* the loop body and the match arms borrow from it, so it is still held.
GuardAtSend(l) == l

\* Mutant: a dispatcher that refreshes the class it is asked for on demand.
RefreshOnRead(sys, c) ==
    [sys EXCEPT ![c] = [list |-> @.list + 1, data |-> @.data + 1]]

\* The System after a match arm has run: the arm reads through the read
\* guard (cpus(), total_memory(), networks(), disks(), ...) and writes nothing.
AfterRead(sys, c) == sys

\* match req { Request::X { tx } => { tx.send(<copy of class X>).ok(); } }
Serve ==
    /\ dpc = "match"
    /\ calls' = [calls EXCEPT ![dreq] =
           OneshotSend(calls[dreq], Extract(store, calls[dreq].class))]
    /\ store' = AfterRead(store, calls[dreq].class)
    /\ lock' = GuardAtSend(lock)
    /\ srv' = Append(srv, dreq)
    /\ dreq' = NoReq
    /\ dpc' = AfterSend(calls[dreq])
    /\ UNCHANGED <<handle, receiver, queue, sending, enq>>
    /\ UNCHANGED <<rpc, cycle, wake, sampler, now, config>>

\* The end of the loop body: the read guard `system` goes out of scope.
ReleaseRead ==
    /\ dpc = "release"
    /\ lock' = [lock EXCEPT !.readers = @ - 1]
    /\ dpc' = "recv"
    /\ UNCHANGED <<dreq, srv>>
    /\ UNCHANGED channelVars
    /\ UNCHANGED refresherVars

Dispatcher ==
    \/ Recv
    \/ Exit
    \/ AcquireRead
    \/ Serve
    \/ ReleaseRead

Client ==
    \/ \E i \in CallIds, c \in Classes : Start(i, c)
    \/ \E i \in CallIds : Return(i)
    \/ \E i \in CallIds : Cancel(i)
    \/ DropHandle

\* ------------------------------------------- abnormal dispatcher termination

\* The dispatcher thread panics while it builds a reply (the sampler's
\* accessors and the allocation of the copy are code outside this crate) and
\* the closure unwinds: tx is dropped unsent, the read guard is released and
\* req_rx is dropped, which disconnects the channel.  Every sender suspended
\* in send_async is then woken with Err, and .ok() drops its request.  A
\* request still in the queue belongs to flume: it is dropped with the queue,
\* or stays there for as long as the handle lives (keep).
Abort ==
    /\ dpc = "match"
    /\ \E keep \in BOOLEAN :
        /\ queue' = IF keep THEN queue ELSE <<>>
        /\ calls' = [i \in CallIds |->
               IF \/ i = dreq
                  \/ InSeq(sending, i)
                  \/ (~keep /\ InSeq(queue, i))
               THEN [calls[i] EXCEPT !.tx = "dropped",
                        !.pc = IF @ = "send" THEN "await" ELSE @]
               ELSE calls[i]]
    /\ sending' = <<>>
    /\ receiver' = "dropped"
    /\ lock' = [lock EXCEPT !.readers = @ - 1]
    /\ dreq' = NoReq
    /\ dpc' = "aborted"
    /\ UNCHANGED <<handle, enq, srv>>
    /\ UNCHANGED refresherVars

\* ------------------------------------------------------ a failing sampler

\* The OS sampler stops working for the disks (the refresher is between two
\* refreshes): from here on every disk refresh fails.
Break ==
    /\ sampler["disk"] = "ok"
    /\ Outside("disk")
    /\ sampler' = [sampler EXCEPT !["disk"] = "failing"]
    /\ UNCHANGED <<store, lock, rpc, cycle, wake, now, config>>
    /\ UNCHANGED channelVars
    /\ UNCHANGED dispatcherVars

\* ------------------------------------------------------- a simulated clock

\* A refresher whose sleep has ended, or which is inside its refresh.
Due(c) == IF Outside(c) THEN wake[c] <= now ELSE TRUE

\* 100 ms pass.  On the simulated clock a refresh takes no time and a sleep
\* ends exactly on time, so the clock waits for every refresher that is due.
Tick ==
    /\ now < OneSecond
    /\ \A c \in Classes : ~Due(c)
    /\ now' = now + 1
    /\ UNCHANGED <<store, lock, rpc, cycle, wake, sampler, config>>
    /\ UNCHANGED channelVars
    /\ UNCHANGED dispatcherVars

TimedRefresher(c) ==
    \/ TimedAcquire(c)
    \/ RefreshList(c)
    \/ Refresh(c)

\* ---------------------------------------------------------- specifications

Next ==
    \/ \E c \in Classes : Refresher(c)
    \/ Dispatcher
    \/ Client


\* The program as written: refreshers, dispatcher, callers, cancellation.
Spec == Init /\ [][Next]_vars

\* The program with no caller cancelled.
NextNoCancel ==
    \/ \E c \in Classes : Refresher(c)
    \/ Dispatcher
    \/ \E i \in CallIds, c \in Classes : Start(i, c)
    \/ \E i \in CallIds : Return(i)
    \/ DropHandle

\* The program with no caller cancelled and a dispatcher that may panic.
NextFault ==
    \/ NextNoCancel
    \/ Abort

\* What the scheduling guarantees: a running thread takes its next step (the
\* sampler's calls return), parking_lot hands the lock to a waiting reader
\* eventually even under repeated writers, and the executor polls a woken
\* get_X future.
Fairness ==
    /\ \A c \in Classes : WF_vars(RefreshList(c)) /\ WF_vars(Refresh(c))
    /\ WF_vars(Recv)
    /\ WF_vars(Exit)
    /\ SF_vars(AcquireRead)
    /\ WF_vars(Serve)
    /\ WF_vars(ReleaseRead)
    /\ \A i \in CallIds : WF_vars(Return(i))

LiveSpec == Init /\ [][NextNoCancel]_vars /\ Fairness

LiveCancelSpec == Init /\ [][Next]_vars /\ Fairness

FaultSpec == Init /\ [][NextFault]_vars /\ Fairness

\* The program with a disk sampler that may start to fail.
NextFail ==
    \/ Next
    \/ Break

FailSpec == Init /\ [][NextFail]_vars

\* The refreshers alone on the simulated clock, whatever the caller asked a
\* builder for.
InitTimed ==
    /\ Constructed
    /\ config \in Configs

NextTimed ==
    \/ \E c \in Classes : TimedRefresher(c)
    \/ Tick

TimedSpec == InitTimed /\ [][NextTimed]_vars

\* ------------------------------------------------------------------ claims

\* The refreshers inside their write guard's scope, and whether the
\* dispatcher is inside its read guard's scope.
Writers == {c \in Classes : rpc[c] \in {"refresh_list", "refresh"}}
ReadHeld == dpc \in {"match", "release"}

\* The value a query of class c returns once n refreshes of c have completed
\* and no later one has begun: the default before the first, the sampler's
\* n-th report after it.
Committed(c, n) == [class |-> c, list |-> Reading(n), data |-> Reading(n)]

\* The calls the dispatcher delivered a value to.
Answered == {i \in CallIds : calls[i].tx = "sent"}

IsPrefix(s, t) == Len(s) <= Len(t) /\ SubSeq(t, 1, Len(s)) = s

\* C1: every value a get_* call receives is the class's value before or after
\* some completed refresh, never the state between refresh_X_list() and
\* refresh_X() or any other partial state.
C1_NoTornReads ==
    \A i \in Answered :
        \E n \in 0..cycle[calls[i].class] :
            calls[i].val = Committed(calls[i].class, n)

\* C1 witness: a query of a two-step class was answered with a refreshed
\* value, and the next query of that class has been dequeued while the
\* class's refresher is between its two sampler calls.
C1_Witness ==
    \E c \in TwoStep, i \in Answered :
        /\ calls[i].class = c
        /\ calls[i].val = Committed(c, 1)
        /\ rpc[c] = "refresh"
        /\ store[c].list # store[c].data
        /\ dpc = "read"
        /\ calls[dreq].class = c

\* C2: at most one refresher is inside its write guard, and while one is, the
\* dispatcher is not inside its read guard; the lock's state says the same.
C2_StoreExclusion ==
    /\ Cardinality(Writers) <= 1
    /\ Writers # {} => ~ReadHeld
    /\ lock.writer <=> Writers # {}
    /\ lock.readers = (IF ReadHeld THEN 1 ELSE 0)

\* C2 witness: one refresher holds write access while another refresher and
\* the dispatcher both wait for access.
C2_Witness ==
    /\ Cardinality(Writers) = 1
    /\ dpc = "read"
    /\ \E c \in Classes : rpc[c] = "sleep"
    /\ \E c \in Classes : rpc[c] = "start"

\* C3: the dispatcher answers requests in the order they entered the inbound
\* queue, whatever their classes: the answered calls are a prefix of the
\* enqueued ones.
C3_FifoService == IsPrefix(srv, enq)

\* C3 witness: two requests of different classes were enqueued, the second
\* after waiting for queue space, and both were answered.
C3_Witness ==
    /\ Len(srv) = 2
    /\ calls[srv[1]].class # calls[srv[2]].class
    /\ calls[srv[1]].tx = "sent"
    /\ calls[srv[2]].tx = "sent"

\* C4: the inbound queue never holds more than QueueCap = 1 request, and a
\* caller is suspended in its enqueue step exactly while it waits, behind a
\* full queue, with its request not yet enqueued.
C4_Backpressure ==
    /\ Len(queue) <= QueueCap
    /\ sending # <<>> => Len(queue) = QueueCap
    /\ \A i \in CallIds :
           calls[i].pc = "send" <=> InSeq(sending, i)
    /\ \A i \in CallIds : InSeq(sending, i) => ~InSeq(enq, i)

\* C4 witness: one request is queued and another caller is suspended in
\* send_async behind it.
C4_Witness ==
    /\ Len(queue) = QueueCap
    /\ Len(sending) >= 1
    /\ calls[sending[1]].pc = "send"

\* The calls made so far, and whether each of them has returned.
Made == {i \in CallIds : calls[i].pc # "new"}
AllReturned == \A i \in Made : calls[i].pc = "done"

\* The sequence s names no call twice.
NoRepeat(s) == \A j, k \in 1..Len(s) : s[j] = s[k] => j = k

\* C5: with no caller cancelled and fair scheduling, every get_* call that
\* was made eventually returns, and once the N calls made have returned the
\* dispatcher has served exactly N requests, each call's once.
C5_EveryRequestCompletes ==
    /\ \A i \in CallIds : InFlight(i) ~> (calls[i].pc = "done")
    /\ [](NoRepeat(srv) /\ Len(srv) <= Cardinality(Made))
    /\ [](AllReturned => Len(srv) = Cardinality(Made))

\* C5 witness: N = MaxCalls > 1 calls were made while refreshes went on, all
\* have returned a value the dispatcher sent, and N requests were served.
C5_Witness ==
    /\ Made = CallIds
    /\ AllReturned
    /\ \A i \in CallIds : calls[i].tx = "sent"
    /\ Len(srv) = MaxCalls
    /\ MaxCalls > 1
    /\ Started = MaxRefresh

\* The calls abandoned after their request was enqueued.
Abandoned == {i \in CallIds : calls[i].pc = "cancelled" /\ InSeq(enq, i)}

\* C6: a request whose caller was cancelled after enqueueing is still
\* dequeued and completed: its result is discarded (the send is refused and
\* nothing is delivered), the dispatcher leaves its loop only when the handle
\* is dropped and the queue is empty, and every enqueued request, the ones
\* enqueued after an abandoned one included, is eventually served.
C6_AbandonmentIsNoOp ==
    /\ [](\A i \in Abandoned :
             /\ calls[i].val = NoValue
             /\ InSeq(srv, i) => calls[i].tx = "refused")
    /\ [](dpc \in {"recv", "read", "match", "release", "exit"})
    /\ [](dpc = "exit" => handle = "dropped" /\ queue = <<>>)
    /\ \A i \in CallIds : InSeq(enq, i) ~> InSeq(srv, i)

\* C6 witness: the dispatcher served an abandoned request, its send was
\* refused, and the request enqueued after it was answered with a value.
C6_Witness ==
    /\ Len(srv) = 2
    /\ srv[1] \in Abandoned
    /\ calls[srv[1]].tx = "refused"
    /\ calls[srv[2]].tx = "sent"
    /\ calls[srv[2]].pc = "done"

\* The calls whose reply sender was dropped before any value was sent: the
\* send failed on a disconnected channel (never enqueued), the request was
\* dropped with the queue (still queued), or the dispatcher dropped it unsent
\* (dequeued, not answered).
Unanswerable == {i \in CallIds : calls[i].tx = "dropped" /\ calls[i].pc # "cancelled"}

C9_EmptyIdempotence ==
    \A i \in Answered :
        cycle[calls[i].class] = 0
            => calls[i].val = DefaultValue(calls[i].class)

\* C9 witness: two queries of one class have both returned the default, the
\* class was never refreshed, and other classes were.
C9_Witness ==
    \E i, j \in CallIds :
        /\ i # j
        /\ calls[i].class = calls[j].class
        /\ calls[i].pc = "done" /\ calls[j].pc = "done"
        /\ calls[i].tx = "sent" /\ calls[j].tx = "sent"
        /\ calls[i].val = DefaultValue(calls[i].class)
        /\ calls[j].val = calls[i].val
        /\ cycle[calls[i].class] = 0
        /\ \E c \in Classes : cycle[c] >= 1

\* What the Store holds for class c when its state is the default or the
\* result of the most recently completed refresh of c.
Fresh(c) ==
    \/ cycle[c] = 0 /\ Extract(store, c) = DefaultValue(c)
    \/ cycle[c] >= 1 /\ Extract(store, c) = Committed(c, cycle[c])

\* C10 as stated: in every reachable state every class of the Store is fresh.
C10_FreshInEveryState == \A c \in Classes : Fresh(c)

\* C10 as amended: in every reachable state, every class whose refresher is
\* not inside its write guard's scope holds the default (never refreshed) or
\* the result of its most recently completed refresh.
C10_StoreFreshness == \A c \in Classes \ Writers : Fresh(c)

\* C10 witness: a class was refreshed twice and, with no refresh of it in
\* progress, holds the second result, not the first.
C10_Witness ==
    \E c \in Classes \ Writers :
        /\ cycle[c] = 2
        /\ Extract(store, c) = Committed(c, 2)
        /\ Extract(store, c) # Committed(c, 1)

\* The positions of a refresher's loop; the loop has no exit.
InLoop(c) == rpc[c] \in {"start", "refresh_list", "refresh", "sleep"}

Quiet == \A c \in Classes : ~Due(c)

\* C12 as stated: one second after construction, a CPU class refreshed every
\* 100 ms has been refreshed about ten times and the Memory class, refreshed
\* every 10 s, not at all.
C12_TenAndNone ==
    (now = OneSecond /\ Quiet) =>
        /\ cycle["cpu"] \in 9..11
        /\ cycle["memory"] = 0

\* C12: the number of refreshes of a class depends only on that class's own
\* interval: every loop refreshes as soon as it starts and then once per
\* interval, so a class with interval I has been refreshed at most
\* 1 + t \div I times at time t, and exactly that often once no refresher is
\* due; with the code's 10 s the Memory class has been refreshed once.
C12_IndependentCadence ==
    /\ \A c \in Classes : cycle[c] <= 1 + (now \div Interval(c))
    /\ Quiet => \A c \in Classes : cycle[c] = 1 + (now \div Interval(c))

\* One second has passed and every refresher sleeps: the Memory class was
\* refreshed once, the CPU class once and then once per interval.
C12_Witness ==
    /\ now = OneSecond
    /\ Quiet
    /\ cycle["memory"] = 1
    /\ cycle["cpu"] = 1 + (OneSecond \div CpuInterval)
    /\ cycle["network"] = 1 + (OneSecond \div NetworkInterval)

\* C13 as stated: whenever a refresher goes to sleep, it sleeps for the
\* interval the caller configured for its class, whatever was configured for
\* the other classes, or for the built-in interval when none was configured.
C13_ConfiguredIntervals ==
    [][\A c \in Classes :
           (rpc[c] = "refresh" /\ rpc'[c] = "sleep") =>
               wake'[c] - now = IF config[c] = <<>>
                                THEN Interval(c)
                                ELSE Head(config[c])]_vars

\* C14 as stated: the read guard is released before the reply is sent, so read
\* access is not held at the moment of the send.
C14_ReleasedBeforeSend ==
    [][srv' # srv => lock.readers = 0]_vars

\* C14: for every request the dispatcher acquires read access, copies the
\* requested class and sends the copy while it still holds read access, and
\* releases read access only afterwards, at the end of the loop body: read
\* access is held before and after the step that sends, and when it is
\* released the request has been answered.
C14_SendUnderReadGuard ==
    [][/\ srv' # srv =>
              /\ dpc = "match"
              /\ lock.readers = 1
              /\ lock'.readers = 1
              /\ dpc' = "release"
       /\ lock'.readers > lock.readers =>
              /\ dpc = "read"
              /\ dreq # NoReq
              /\ ~InSeq(srv, dreq)
       /\ lock'.readers < lock.readers =>
              /\ dpc = "release"
              /\ dreq = NoReq
              /\ dpc' = "recv"]_vars

\* A reply has been delivered and the dispatcher has not yet reached the end
\* of the loop body: the read guard is still held.
C14_Witness ==
    /\ dpc = "release"
    /\ lock.readers = 1
    /\ Len(srv) >= 1
    /\ calls[srv[Len(srv)]].tx = "sent"

\* C15: Store access is held only inside a critical section: write access
\* exactly while some refresher is between its write() and the end of its
\* inner block (never by one that sleeps, or whose refresh has failed), read
\* access exactly while the dispatcher is between its read() and the end of
\* its loop body (never while it waits in recv() or after it has left the
\* loop); so whenever every participant sleeps or idles the lock is free and
\* any refresher may take it.
C15_ScopedLockHolding ==
    /\ lock.writer <=> Writers # {}
    /\ lock.readers = (IF ReadHeld THEN 1 ELSE 0)
    /\ \A c \in Classes :
           (Outside(c) /\ Writers = {} /\ ~ReadHeld /\ Started < MaxRefresh)
               => ENABLED AcquireWrite(c)
    /\ (dpc = "read" /\ Writers = {}) => ENABLED AcquireRead

\* The disk refresher sleeps after a failed refresh, the dispatcher waits for
\* the next request after serving one, and meanwhile another refresher has
\* taken write access.
C15_Witness ==
    /\ sampler["disk"] = "failed"
    /\ rpc["disk"] = "sleep"
    /\ dpc = "recv"
    /\ Len(srv) >= 1
    /\ Writers # {}
    /\ lock.writer
    /\ lock.readers = 0

\* C16: a refresh step of one metric class changes only that class's data in
\* the Store: every step that changes the Store is a step of the one refresher
\* inside its write guard, it changes that refresher's class and leaves the
\* other three classes as they were.
C16_OneClassPerRefresh ==
    [][store' # store =>
           \E c \in Writers :
               /\ Writers = {c}
               /\ store'[c] # store[c]
               /\ \A d \in Classes \ {c} : store'[d] = store[d]]_vars

\* Two classes have been refreshed, one of them in two steps, and a third has
\* not: each holds its own refresh's result, the third still its default.
C16_Witness ==
    \E c \in TwoStep, d \in Classes \ TwoStep, e \in Classes :
        /\ e \notin {c, d}
        /\ cycle[c] = 1
        /\ cycle[d] = 1
        /\ Extract(store, c) = Committed(c, 1)
        /\ Extract(store, d) = Committed(d, 1)
        /\ Extract(store, e) = DefaultValue(e)

\* C17: the Store's contents change only in a refresher's refresh step: a
\* step that changes the Store is a step of a refresher inside its write
\* guard, and every step of a caller or of the dispatcher (a request enqueued
\* or left waiting, dequeued, served, its reply delivered or refused, received
\* or abandoned, the handle dropped, the loop left) leaves every class of the
\* Store unchanged.
C17_OnlyRefreshersWrite ==
    [][/\ store' # store => \E c \in Writers : rpc'[c] # rpc[c]
       /\ (\/ calls' # calls
           \/ queue' # queue
           \/ sending' # sending
           \/ handle' # handle
           \/ receiver' # receiver
           \/ dpc' # dpc
           \/ dreq' # dreq
           \/ srv' # srv) => store' = store]_vars

\* A reply was delivered and received, another was refused because its caller
\* had gone, and the Store holds exactly what the refreshers put there.
C17_Witness ==
    /\ \E i, j \in CallIds :
           /\ calls[i].pc = "done"
           /\ calls[i].tx = "sent"
           /\ calls[j].pc = "cancelled"
           /\ calls[j].tx = "refused"
    /\ \E c \in Classes : cycle[c] >= 1
    /\ Writers = {}
    /\ \A c \in Classes : Fresh(c)

\* C18: each request is answered at most once, on its own reply channel, and
\* with the Store's value of its own class as the dispatcher sees it under
\* the read guard: only the request the dispatcher holds is answered, only
\* while read access is held, a delivered value is the requested class's list
\* and readings in the Store at that step, an answered request is never
\* answered again and its value never replaced, no other call's channel
\* receives anything, and the call returns the value delivered to it.
C18_ReplyMatchesRequest ==
    [][\A i \in CallIds :
           /\ (calls'[i].tx # calls[i].tx /\ calls'[i].tx \in {"sent", "refused"})
                  => /\ i = dreq
                     /\ calls[i].tx = "live"
                     /\ ~InSeq(srv, i)
                     /\ ReadHeld
                     /\ lock.readers = 1
                     /\ ~lock.writer
           /\ (calls'[i].tx # calls[i].tx /\ calls'[i].tx = "sent")
                  => calls'[i].val = [class |-> calls[i].class,
                                      list |-> store[calls[i].class].list,
                                      data |-> store[calls[i].class].data]
           /\ calls[i].tx \in {"sent", "refused"}
                  => /\ calls'[i].tx = calls[i].tx
                     /\ calls'[i].val = calls[i].val
           /\ calls'[i].val # calls[i].val
                  => \/ i = dreq /\ calls'[i].tx = "sent"
                     \/ /\ calls[i].tx = "dropped"
                        /\ calls'[i].pc = "done"
                        /\ calls'[i].val = DefaultValue(calls[i].class)
           /\ (calls'[i].pc = "done" /\ calls[i].pc # "done" /\ calls[i].tx = "sent")
                  => /\ calls'[i].val = calls[i].val
                     /\ calls'[i].val.class = calls[i].class]_vars

\* Two calls for different classes have returned what the dispatcher sent
\* them, one class refreshed and the other not: each got its own class's
\* value, and the two values differ.
C18_Witness ==
    \E i, j \in Answered :
        /\ calls[i].pc = "done"
        /\ calls[j].pc = "done"
        /\ calls[i].class # calls[j].class
        /\ calls[i].val = Committed(calls[i].class, 1)
        /\ calls[j].val = DefaultValue(calls[j].class)
        /\ srv = <<i, j>>

\* A step of a refresher that holds the write guard.
Inside(c) == RefreshList(c) \/ Refresh(c)

\* The callers suspended in send_async or on their reply.
Suspended == {i \in CallIds : InFlight(i) /\ calls[i].tx = "live"}

\* C19: no reachable state has the refreshers, the dispatcher and the pending
\* callers blocked on each other: while a caller is suspended the dispatcher
\* can take a step or the refresher holding the lock can; while the
\* dispatcher waits for read access the refresher holding the lock can take
\* a step; and while a refresher is kept out of the lock its holder, the
\* dispatcher or another refresher, can take a step.
C19_DeadlockFreedom ==
    /\ Suspended # {} =>
           \/ ENABLED Dispatcher
           \/ \E c \in Writers : ENABLED Inside(c)
    /\ (dpc = "read" /\ ~CanRead(lock)) =>
           \E c \in Writers : ENABLED Inside(c)
    /\ \A c \in Classes :
           (Outside(c) /\ ~CanWrite(lock)) =>
               \/ ENABLED (Serve \/ ReleaseRead)
               \/ \E d \in Writers : d # c /\ ENABLED Inside(d)

\* One caller waits for its reply while the dispatcher waits for read access,
\* another waits with its request in the queue, a refresher holds the lock and
\* the other three are kept out.
C19_Witness ==
    /\ dpc = "read"
    /\ lock.writer
    /\ dreq \in Suspended
    /\ \E i \in Suspended : InSeq(queue, i)
    /\ \E c \in Classes :
           /\ Writers = {c}
           /\ \A d \in Classes \ {c} : Outside(d) /\ ~CanWrite(lock)

\* C20: once the handle, the only sender, is dropped, the dispatcher serves
\* every request still in the queue and then leaves its loop for good: it
\* eventually exits, and when it has, the queue is empty, every request ever
\* enqueued has been served and no read access is held.  The four refresher
\* loops have no exit: each refresher stays in its loop and, the handle
\* dropped or not, can take the lock whenever it is free.
C20_LifetimeOnDrop ==
    /\ [](dpc = "exit" =>
              /\ handle = "dropped"
              /\ receiver = "dropped"
              /\ queue = <<>>
              /\ sending = <<>>
              /\ srv = enq
              /\ lock.readers = 0)
    /\ [](receiver = "dropped" => dpc = "exit")
    /\ (handle = "dropped" ~> dpc = "exit")
    /\ [][dpc = "exit" => dpc' = "exit"]_vars
    /\ [](\A c \in Classes :
              /\ InLoop(c)
              /\ (handle = "dropped" /\ Outside(c) /\ CanWrite(lock)
                      /\ Started < MaxRefresh) => ENABLED AcquireWrite(c))

\* The dispatcher has left its loop after serving a request whose caller had
\* gone, and a refresher is in the middle of a refresh.
C20_Witness ==
    /\ dpc = "exit"
    /\ handle = "dropped"
    /\ Len(srv) >= 1
    /\ srv[Len(srv)] \in Abandoned
    /\ calls[srv[Len(srv)]].tx = "refused"
    /\ Writers # {}

====
